---- MODULE Spec2Model ----
(***************************************************************************)
(* Model of the Windows backend of rust-printers: the raster pipeline      *)
(* print_image (src/windows.rs) and the raw submitter print_buffer         *)
(* (src/windows/winspool/jobs.rs).                                         *)
(*                                                                         *)
(* One call is modelled at a time.  Every OS call the code makes that      *)
(* acquires, releases or draws is appended to `log`; the outcome of each   *)
(* call the code branches on is chosen nondeterministically.  The pure     *)
(* queries GetDeviceCaps(HORZRES / VERTRES) of print_image touch no        *)
(* resource and are not logged; the HORZRES result is kept in `width`, the *)
(* VERTRES result is never used.                                           *)
(***************************************************************************)
EXTENDS Integers, Sequences, FiniteSets, TLC

VARIABLES
    pc,         \* position in the running call
    op,         \* "none" | "print_image" | "print_buffer"
    args,       \* the arguments of the running call
    log,        \* sequence of OS calls made so far, with their return values
    job_id,     \* value returned by StartDocW / StartDocPrinterW
    i,          \* loop counter of the page loop / the copies loop
    copies,     \* print_buffer: copy count after the option scan
    data_type,  \* print_buffer: data type after the option scan
    result,     \* value returned to the caller
    devmode,    \* print_image: the DEVMODE as fetched and as passed to CreateDCW
    width       \* print_image: GetDeviceCaps(hdc, HORZRES)

vars == <<pc, op, args, log, job_id, i, copies, data_type, result, devmode,
          width>>

(***************************************************************************)
(* Bounds                                                                  *)
(***************************************************************************)
MaxPages == 3
MaxOptions == 2
MaxBufLen == 1
MaxJobCode == 600
MaxJobs == 3

(***************************************************************************)
(* Values                                                                  *)
(***************************************************************************)
\* A u64 is written [base, off] and denotes base * 2^64 + off.
U64Zero == [base |-> 0, off |-> 0]

\* `job_id as u64` for an i32 job_id: sign extension, so a negative value
\* wraps to 2^64 + job_id.
I32AsU64(j) == [base |-> IF j < 0 THEN 1 ELSE 0, off |-> j]

\* `job_id as u64` for a u32 job_id: zero extension.
U32AsU64(j) == [base |-> 0, off |-> j]

NoResult == [kind |-> "None", val |-> U64Zero, err |-> ""]
Ok(v) == [kind |-> "Ok", val |-> v, err |-> ""]
Err(msg) == [kind |-> "Err", val |-> U64Zero, err |-> msg]

\* Option<f64>
NoneDim == [some |-> FALSE, v |-> 0]
SomeDim(x) == [some |-> TRUE, v |-> x]
OptDims == {NoneDim, SomeDim(80), SomeDim(4000)}

\* `(x * 10f64) as i16` for a whole-number x: the product saturates at the
\* ends of the i16 range.
I16Max == 32767
I16Min == -32768
TimesTenAsI16(x) ==
    IF x * 10 > I16Max THEN I16Max
    ELSE IF x * 10 < I16Min THEN I16Min
    ELSE x * 10

\* DEVMODEW: dmFields as the set of its flags, the two paper dimensions, and
\* two of the fields the code never writes.
ZeroDevMode == [dmFields |-> {}, dmPaperLength |-> 0, dmPaperWidth |-> 0,
                dmOrientation |-> 0, dmPaperSize |-> 0]
DriverDevMode(fields) ==
    [dmFields |-> fields, dmPaperLength |-> 2970, dmPaperWidth |-> 2100,
     dmOrientation |-> 1, dmPaperSize |-> 9]

\* What the second DocumentPropertiesW call may write into the buffer.
FetchedDevModes ==
    { DriverDevMode({}),
      DriverDevMode({"DM_ORIENTATION", "DM_PAPERSIZE"}),
      DriverDevMode({"DM_ORIENTATION", "DM_PAPERSIZE",
                     "DM_PAPERLENGTH", "DM_PAPERWIDTH"}) }

\* The vec![0u8; size_needed] buffer before anything is fetched.
NoDevMode == [fetched |-> ZeroDevMode, passed |-> ZeroDevMode]

\* The two `if let Some(..)` overrides applied to the fetched DEVMODE.
OverrideHeight(dm, h) ==
    IF h.some
    THEN [dm EXCEPT !.dmFields = {"DM_PAPERLENGTH"},
                    !.dmPaperLength = TimesTenAsI16(h.v)]
    ELSE dm
OverrideWidth(dm, w) ==
    IF w.some
    THEN [dm EXCEPT !.dmFields = dm.dmFields \cup {"DM_PAPERWIDTH"},
                    !.dmPaperWidth = TimesTenAsI16(w.v)]
    ELSE dm
OverrideDevMode(dm, w, h) == OverrideWidth(OverrideHeight(dm, h), w)

\* One logged OS call: function, the object it is applied to, its return
\* value, and a number (the byte count WritePrinter is asked to write, the
\* command passed to SetJobW, the bytes_needed EnumJobsW reports; 0 for the
\* other calls).
EvN(fn, arg, ret, n) ==
    [fn |-> fn, arg |-> arg, ret |-> ret, n |-> n, p |-> <<>>]
Ev(fn, arg, ret) == EvN(fn, arg, ret, 0)

\* a / 2 on i32: the quotient truncated toward zero.
HalfOf(a) == IF a >= 0 THEN a \div 2 ELSE -((-a) \div 2)

\* Variant of XPos that rounds the quotient down.
XPos_RoundsDown(dev_width, img_width) == (dev_width - img_width) \div 2

\* x_pos = (width - img_width as i32) / 2
XPos(dev_width, img_width) == HalfOf(dev_width - img_width)

\* The StretchBlt call: destination position and size, source size.
StretchBltEv(ret, dev_width, img_width, img_height) ==
    [Ev("StretchBlt", "hdc", ret) EXCEPT
        !.p = [x |-> XPos(dev_width, img_width), y |-> 0,
               w |-> img_width, h |-> img_height,
               src_w |-> img_width, src_h |-> img_height]]

\* Outcomes of the OS calls the code branches on.
BoolRets == {0, 1}
IDOK == 1
DocPropSizeRets == {-1, 0, 220}
DocPropGetRets == {-1, IDOK, 2}
StartDocRets == {-1, 0, 1, 2}
StartPageRets == {-1, 0, 1}
SetDIBitsRets == {0, 1}
StartDocPrinterRets == {0, 1, 2}

\* Option keys and values; a value is a string written as a tuple of
\* one-character strings.
RAW == <<"R", "A", "W">>
OptionKeys == {"copies", "document-format", "media"}
OptionValues == { <<"2">>, <<"0">>, <<"-", "1">>, <<"x">>, <<"+", "3">>, <<>> }
SeqsUpTo(S, n) == UNION { [1..k -> S] : k \in 0..n }
OptionLists == SeqsUpTo(OptionKeys \X OptionValues, MaxOptions)

\* Pixel dimensions of the image, and HORZRES values of the printer DC.
ImageDims == { [w |-> 101, h |-> 50], [w |-> 5000, h |-> 7000] }
DeviceWidths == {100, 4961}

NoArgs == [page_count |-> 0, print_width |-> NoneDim, print_height |-> NoneDim,
           img_width |-> 0, img_height |-> 0,
           options |-> <<>>, buf_len |-> 0]

(***************************************************************************)
(* print_image                                                             *)
(***************************************************************************)
CallPrintImage ==
    /\ pc = "idle"
    /\ \E n \in 0..MaxPages, w \in OptDims, h \in OptDims, img \in ImageDims :
          args' = [NoArgs EXCEPT !.page_count = n, !.print_width = w,
                                 !.print_height = h,
                                 !.img_width = img.w, !.img_height = img.h]
    /\ op' = "print_image"
    /\ pc' = "pi_open"
    /\ UNCHANGED <<width, devmode, log, job_id, i, copies, data_type, result>>

\* Variant of PI_OpenPrinter that calls ClosePrinter on the handle it failed
\* to open.
PI_OpenPrinter_ClosesOnFailure ==
    /\ pc = "pi_open"
    /\ \E r \in BoolRets :
          IF r = 0
          THEN /\ log' = log \o << Ev("OpenPrinterW", "printer_handle", r),
                                   Ev("ClosePrinter", "printer_handle", 1) >>
               /\ result' = Err("Failed to open printer")
               /\ pc' = "done"
          ELSE /\ log' = Append(log, Ev("OpenPrinterW", "printer_handle", r))
               /\ result' = result
               /\ pc' = IF args.print_height.some \/ args.print_width.some
                        THEN "pi_devmode_size" ELSE "pi_createdc"
    /\ UNCHANGED <<width, devmode, op, args, job_id, i, copies, data_type>>

\* OpenPrinterW; Err return when it fails.
PI_OpenPrinter ==
    /\ pc = "pi_open"
    /\ \E r \in BoolRets :
          /\ log' = Append(log, Ev("OpenPrinterW", "printer_handle", r))
          /\ IF r = 0
             THEN /\ result' = Err("Failed to open printer")
                  /\ pc' = "done"
             ELSE /\ result' = result
                  /\ pc' = IF args.print_height.some \/ args.print_width.some
                           THEN "pi_devmode_size" ELSE "pi_createdc"
    /\ UNCHANGED <<width, devmode, op, args, job_id, i, copies, data_type>>

\* First DocumentPropertiesW call: the size of the DEVMODE buffer.
PI_DevModeSize ==
    /\ pc = "pi_devmode_size"
    /\ \E r \in DocPropSizeRets :
          /\ log' = Append(log, Ev("DocumentPropertiesW", "size", r))
          /\ IF r <= 0
             THEN /\ result' = Err("Failed to get device mode size")
                  /\ pc' = "done"
             ELSE /\ result' = result
                  /\ pc' = "pi_devmode_get"
    /\ UNCHANGED <<width, devmode, op, args, job_id, i, copies, data_type>>

\* Second DocumentPropertiesW call: fetch the DEVMODE, then override the
\* paper length / width for the dimensions given.
PI_DevModeGet ==
    /\ pc = "pi_devmode_get"
    /\ \E r \in DocPropGetRets :
          /\ log' = Append(log, Ev("DocumentPropertiesW", "DM_OUT_BUFFER", r))
          /\ IF r # IDOK
             THEN /\ result' = Err("Failed to get device mode")
                  /\ pc' = "done"
                  /\ devmode' = devmode
             ELSE /\ result' = result
                  /\ pc' = "pi_createdc"
                  /\ \E dm \in FetchedDevModes :
                        devmode' = [fetched |-> dm,
                                    passed |-> OverrideDevMode(dm,
                                                  args.print_width,
                                                  args.print_height)]
    /\ UNCHANGED <<width, op, args, job_id, i, copies, data_type>>

\* CreateDCW, with or without the DEVMODE, and the HORZRES query on the DC.
PI_CreateDC ==
    /\ pc = "pi_createdc"
    /\ \E r \in BoolRets :
          IF r = 0
          THEN /\ log' = log \o << Ev("CreateDCW", "hdc", r),
                                   Ev("ClosePrinter", "printer_handle", 1) >>
               /\ result' = Err("Failed to create device context")
               /\ pc' = "done"
               /\ width' = width
          ELSE /\ log' = Append(log, Ev("CreateDCW", "hdc", r))
               /\ result' = result
               /\ pc' = "pi_startdoc"
               /\ \E w \in DeviceWidths : width' = w
    /\ UNCHANGED <<devmode, op, args, job_id, i, copies, data_type>>

\* StartDocW; only a return value of exactly 0 is treated as a failure.
PI_StartDoc ==
    /\ pc = "pi_startdoc"
    /\ \E j \in StartDocRets :
          /\ job_id' = j
          /\ IF j = 0
             THEN /\ log' = log \o << Ev("StartDocW", "hdc", j),
                                      Ev("DeleteDC", "hdc", 1),
                                      Ev("ClosePrinter", "printer_handle", 1) >>
                  /\ result' = Err("Failed to start document")
                  /\ pc' = "done"
             ELSE /\ log' = Append(log, Ev("StartDocW", "hdc", j))
                  /\ result' = result
                  /\ pc' = "pi_loop"
    /\ i' = 0
    /\ UNCHANGED <<width, devmode, op, args, copies, data_type>>

\* Variant of PI_StartPage that reports a failed page begin to the caller.
PI_StartPage_ReportsFailure ==
    /\ pc = "pi_loop"
    /\ i < args.page_count
    /\ \E r \in StartPageRets :
          IF r <= 0
          THEN /\ log' = log \o << Ev("StartPage", "hdc", r),
                                   Ev("EndDoc", "hdc", 1),
                                   Ev("DeleteDC", "hdc", 1),
                                   Ev("ClosePrinter", "printer_handle", 1) >>
               /\ result' = Err("Failed to start page")
               /\ pc' = "done"
          ELSE /\ log' = Append(log, Ev("StartPage", "hdc", r))
               /\ result' = result
               /\ pc' = "pi_memdc"
    /\ UNCHANGED <<width, devmode, op, args, job_id, i, copies, data_type>>

\* Head of `for _ in 0..page_count` and StartPage, whose result is dropped.
PI_StartPage ==
    /\ pc = "pi_loop"
    /\ i < args.page_count
    /\ \E r \in StartPageRets :
          log' = Append(log, Ev("StartPage", "hdc", r))
    /\ pc' = "pi_memdc"
    /\ UNCHANGED <<width, devmode, op, args, job_id, i, copies, data_type, result>>

\* CreateCompatibleDC and its failure exit.
PI_CreateCompatibleDC ==
    /\ pc = "pi_memdc"
    /\ \E r \in BoolRets :
          IF r = 0
          THEN /\ log' = log \o << Ev("CreateCompatibleDC", "mem_dc", r),
                                   Ev("EndPage", "hdc", 1),
                                   Ev("EndDoc", "hdc", 1),
                                   Ev("DeleteDC", "hdc", 1),
                                   Ev("ClosePrinter", "printer_handle", 1) >>
               /\ result' = Err("Failed to create compatible DC")
               /\ pc' = "done"
          ELSE /\ log' = Append(log, Ev("CreateCompatibleDC", "mem_dc", r))
               /\ result' = result
               /\ pc' = "pi_bitmap"
    /\ UNCHANGED <<width, devmode, op, args, job_id, i, copies, data_type>>

\* CreateCompatibleBitmap, its failure exit, and SelectObject(mem_dc, bitmap).
PI_CreateCompatibleBitmap ==
    /\ pc = "pi_bitmap"
    /\ \E r \in BoolRets :
          IF r = 0
          THEN /\ log' = log \o << Ev("CreateCompatibleBitmap", "bitmap", r),
                                   Ev("EndDoc", "hdc", 1),
                                   Ev("DeleteDC", "mem_dc", 1),
                                   Ev("DeleteDC", "hdc", 1),
                                   Ev("ClosePrinter", "printer_handle", 1) >>
               /\ result' = Err("Failed to create compatible bitmap")
               /\ pc' = "done"
          ELSE /\ log' = log \o << Ev("CreateCompatibleBitmap", "bitmap", r),
                                   Ev("SelectObject", "bitmap", 1) >>
               /\ result' = result
               /\ pc' = "pi_setdib"
    /\ UNCHANGED <<width, devmode, op, args, job_id, i, copies, data_type>>

\* SetDIBits and its failure exit.
PI_SetDIBits ==
    /\ pc = "pi_setdib"
    /\ \E r \in SetDIBitsRets :
          IF r = 0
          THEN /\ log' = log \o << Ev("SetDIBits", "bitmap", r),
                                   Ev("SelectObject", "old_bitmap", 1),
                                   Ev("DeleteObject", "bitmap", 1),
                                   Ev("DeleteDC", "mem_dc", 1),
                                   Ev("EndPage", "hdc", 1),
                                   Ev("EndDoc", "hdc", 1),
                                   Ev("DeleteDC", "hdc", 1),
                                   Ev("ClosePrinter", "printer_handle", 1) >>
               /\ result' = Err("Failed to set DIB bits")
               /\ pc' = "done"
          ELSE /\ log' = Append(log, Ev("SetDIBits", "bitmap", r))
               /\ result' = result
               /\ pc' = "pi_blt"
    /\ UNCHANGED <<width, devmode, op, args, job_id, i, copies, data_type>>

\* Variant of PI_StretchBlt that releases the page's resources and goes on to
\* the next page when StretchBlt fails.
PI_StretchBlt_ContinuesAfterFailure ==
    /\ pc = "pi_blt"
    /\ \E r \in BoolRets :
          log' = log \o << Ev("SetStretchBltMode", "HALFTONE", 1),
                           StretchBltEv(r, width, args.img_width,
                                                args.img_height),
                           Ev("SelectObject", "old_bitmap", 1),
                           Ev("DeleteObject", "bitmap", 1),
                           Ev("DeleteDC", "mem_dc", 1),
                           Ev("EndPage", "hdc", 1) >>
    /\ pc' = "pi_loop"
    /\ i' = i + 1
    /\ UNCHANGED <<width, devmode, op, args, job_id, copies, data_type, result>>

\* SetStretchBltMode, StretchBlt, its failure exit, and the end of the page.
PI_StretchBlt ==
    /\ pc = "pi_blt"
    /\ \E r \in BoolRets :
          IF r = 0
          THEN /\ log' = log \o << Ev("SetStretchBltMode", "HALFTONE", 1),
                                   StretchBltEv(r, width, args.img_width,
                                                args.img_height),
                                   Ev("SelectObject", "old_bitmap", 1),
                                   Ev("DeleteObject", "bitmap", 1),
                                   Ev("DeleteDC", "mem_dc", 1),
                                   Ev("EndPage", "hdc", 1),
                                   Ev("EndDoc", "hdc", 1),
                                   Ev("DeleteDC", "hdc", 1),
                                   Ev("ClosePrinter", "printer_handle", 1) >>
               /\ result' = Err("Failed to stretch blit image")
               /\ pc' = "done"
               /\ i' = i
          ELSE /\ log' = log \o << Ev("SetStretchBltMode", "HALFTONE", 1),
                                   StretchBltEv(r, width, args.img_width,
                                                args.img_height),
                                   Ev("SelectObject", "old_bitmap", 1),
                                   Ev("DeleteObject", "bitmap", 1),
                                   Ev("DeleteDC", "mem_dc", 1),
                                   Ev("EndPage", "hdc", 1) >>
               /\ result' = result
               /\ pc' = "pi_loop"
               /\ i' = i + 1
    /\ UNCHANGED <<width, devmode, op, args, job_id, copies, data_type>>

\* Variant of PI_Finish that forgets EndDoc.
PI_Finish_NoEndDoc ==
    /\ pc = "pi_loop"
    /\ ~(i < args.page_count)
    /\ log' = log \o << Ev("DeleteDC", "hdc", 1),
                        Ev("ClosePrinter", "printer_handle", 1) >>
    /\ result' = Ok(I32AsU64(job_id))
    /\ pc' = "done"
    /\ UNCHANGED <<width, devmode, op, args, job_id, i, copies, data_type>>

\* After the page loop: EndDoc, DeleteDC, ClosePrinter, Ok(job_id as u64).
PI_Finish ==
    /\ pc = "pi_loop"
    /\ ~(i < args.page_count)
    /\ log' = log \o << Ev("EndDoc", "hdc", 1),
                        Ev("DeleteDC", "hdc", 1),
                        Ev("ClosePrinter", "printer_handle", 1) >>
    /\ result' = Ok(I32AsU64(job_id))
    /\ pc' = "done"
    /\ UNCHANGED <<width, devmode, op, args, job_id, i, copies, data_type>>

(***************************************************************************)
(* print_buffer                                                            *)
(***************************************************************************)
I32Max == 2147483647
I32Min == -I32Max - 1

DigitOf == [c \in {"0", "1", "2", "3", "4", "5", "6", "7", "8", "9"} |->
              CASE c = "0" -> 0 [] c = "1" -> 1 [] c = "2" -> 2 [] c = "3" -> 3
                [] c = "4" -> 4 [] c = "5" -> 5 [] c = "6" -> 6 [] c = "7" -> 7
                [] c = "8" -> 8 [] c = "9" -> 9]

ParseFail == [ok |-> FALSE, val |-> 0]

\* Accumulates the digits of s into acc with checked arithmetic; the digits
\* are subtracted when the literal is negative.
RECURSIVE ParseDigits(_, _, _)
ParseDigits(s, acc, neg) ==
    IF s = <<>> THEN [ok |-> TRUE, val |-> acc]
    ELSE IF Head(s) \notin DOMAIN DigitOf THEN ParseFail
    ELSE LET d == DigitOf[Head(s)] IN
         IF neg
         THEN IF acc < -(I32Max \div 10) \/ acc * 10 < I32Min + d
              THEN ParseFail
              ELSE ParseDigits(Tail(s), acc * 10 - d, neg)
         ELSE IF acc > I32Max \div 10 \/ acc * 10 > I32Max - d
              THEN ParseFail
              ELSE ParseDigits(Tail(s), acc * 10 + d, neg)

\* str::parse::<i32>(): optional sign, then at least one decimal digit.
ParseI32(s) ==
    IF s = <<>> THEN ParseFail
    ELSE IF Len(s) = 1 /\ Head(s) \in {"+", "-"} THEN ParseFail
    ELSE IF Head(s) = "+" THEN ParseDigits(Tail(s), 0, FALSE)
    ELSE IF Head(s) = "-" THEN ParseDigits(Tail(s), 0, TRUE)
    ELSE ParseDigits(s, 0, FALSE)

\* Variant of ParseCopies that falls back to the default 1 instead of the
\* current count.
ParseCopies_ResetsToDefault(s, cur) ==
    IF ParseI32(s).ok THEN ParseI32(s).val ELSE 1

\* option.1.parse().unwrap_or(copies)
ParseCopies(s, cur) == IF ParseI32(s).ok THEN ParseI32(s).val ELSE cur

\* The `for option in options` scan, from option k on.
RECURSIVE ScanOptions(_, _, _, _)
ScanOptions(opts, k, c, dt) ==
    IF k > Len(opts) THEN [copies |-> c, data_type |-> dt]
    ELSE IF opts[k][1] = "copies"
         THEN ScanOptions(opts, k + 1, ParseCopies(opts[k][2], c), dt)
    ELSE IF opts[k][1] = "document-format"
         THEN ScanOptions(opts, k + 1, c, opts[k][2])
    ELSE ScanOptions(opts, k + 1, c, dt)

CallPrintBuffer ==
    /\ pc = "idle"
    /\ \E o \in OptionLists, n \in 0..MaxBufLen :
          args' = [NoArgs EXCEPT !.options = o, !.buf_len = n]
    /\ op' = "print_buffer"
    /\ pc' = "pb_open"
    /\ UNCHANGED <<width, devmode, log, job_id, i, copies, data_type, result>>

\* open_printer: OpenPrinterW; the error is returned as is.
PB_OpenPrinter ==
    /\ pc = "pb_open"
    /\ \E r \in BoolRets :
          /\ log' = Append(log, Ev("OpenPrinterW", "printer_handle", r))
          /\ IF r = 0
             THEN /\ result' = Err("OpenPrinterW failed")
                  /\ pc' = "done"
             ELSE /\ result' = result
                  /\ pc' = "pb_scan"
    /\ UNCHANGED <<width, devmode, op, args, job_id, i, copies, data_type>>

\* copies = 1, data_type = "RAW", then the option scan.
PB_ScanOptions ==
    /\ pc = "pb_scan"
    /\ LET r == ScanOptions(args.options, 1, 1, RAW) IN
          /\ copies' = r.copies
          /\ data_type' = r.data_type
    /\ pc' = "pb_startdoc"
    /\ UNCHANGED <<width, devmode, op, args, log, job_id, i, result>>

\* Variant of PB_StartDoc that returns the error without ClosePrinter.
PB_StartDoc_NoCloseOnFailure ==
    /\ pc = "pb_startdoc"
    /\ \E j \in StartDocPrinterRets :
          /\ job_id' = j
          /\ log' = Append(log, Ev("StartDocPrinterW", "printer_handle", j))
          /\ IF j = 0
             THEN /\ result' = Err("StartDocPrinterW failed")
                  /\ pc' = "done"
             ELSE /\ result' = result
                  /\ pc' = "pb_loop"
    /\ i' = 0
    /\ UNCHANGED <<width, devmode, op, args, copies, data_type>>

\* StartDocPrinterW; 0 is the failure value.
PB_StartDoc ==
    /\ pc = "pb_startdoc"
    /\ \E j \in StartDocPrinterRets :
          /\ job_id' = j
          /\ IF j = 0
             THEN /\ log' = log \o << Ev("StartDocPrinterW", "printer_handle", j),
                                      Ev("ClosePrinter", "printer_handle", 1) >>
                  /\ result' = Err("StartDocPrinterW failed")
                  /\ pc' = "done"
             ELSE /\ log' = Append(log, Ev("StartDocPrinterW", "printer_handle", j))
                  /\ result' = result
                  /\ pc' = "pb_loop"
    /\ i' = 0
    /\ UNCHANGED <<width, devmode, op, args, copies, data_type>>

\* Variant of PB_Copy that ends the page before writing the buffer.
PB_Copy_WritesAfterEndPage ==
    /\ pc = "pb_loop"
    /\ i < copies
    /\ \E sp \in BoolRets, wr \in BoolRets :
          IF sp # 0
          THEN log' = log \o << Ev("StartPagePrinter", "printer_handle", sp),
                                Ev("EndPagePrinter", "printer_handle", 1),
                                EvN("WritePrinter", "buffer", wr, args.buf_len) >>
          ELSE log' = Append(log, Ev("StartPagePrinter", "printer_handle", sp))
    /\ i' = i + 1
    /\ UNCHANGED <<width, devmode, pc, op, args, job_id, copies, data_type, result>>

\* Variant of PB_Copy that leaves the loop at the first failed write.
PB_Copy_AbortsOnWriteFailure ==
    /\ pc = "pb_loop"
    /\ i < copies
    /\ \E sp \in BoolRets, wr \in BoolRets :
          /\ IF sp # 0
             THEN log' = log \o << Ev("StartPagePrinter", "printer_handle", sp),
                                   EvN("WritePrinter", "buffer", wr, args.buf_len),
                                   Ev("EndPagePrinter", "printer_handle", 1) >>
             ELSE log' = Append(log, Ev("StartPagePrinter", "printer_handle", sp))
          /\ i' = IF sp # 0 /\ wr = 0 THEN copies ELSE i + 1
    /\ UNCHANGED <<width, devmode, pc, op, args, job_id, copies, data_type, result>>

\* One iteration of `for _ in 0..copies`.  buffer.len() as c_ulong keeps the
\* value for every length below 2^32, which covers 0..MaxBufLen.
PB_Copy ==
    /\ pc = "pb_loop"
    /\ i < copies
    /\ \E sp \in BoolRets, wr \in BoolRets :
          IF sp # 0
          THEN log' = log \o << Ev("StartPagePrinter", "printer_handle", sp),
                                EvN("WritePrinter", "buffer", wr, args.buf_len),
                                Ev("EndPagePrinter", "printer_handle", 1) >>
          ELSE log' = Append(log, Ev("StartPagePrinter", "printer_handle", sp))
    /\ i' = i + 1
    /\ UNCHANGED <<width, devmode, pc, op, args, job_id, copies, data_type, result>>

\* After the loop: EndDocPrinter, ClosePrinter, Ok(job_id as u64).
PB_Finish ==
    /\ pc = "pb_loop"
    /\ ~(i < copies)
    /\ log' = log \o << Ev("EndDocPrinter", "printer_handle", 1),
                        Ev("ClosePrinter", "printer_handle", 1) >>
    /\ result' = Ok(U32AsU64(job_id))
    /\ pc' = "done"
    /\ UNCHANGED <<width, devmode, op, args, job_id, i, copies, data_type>>

(***************************************************************************)
(* Specification                                                           *)
(***************************************************************************)
Init ==
    /\ pc = "idle"
    /\ op = "none"
    /\ args = NoArgs
    /\ log = <<>>
    /\ job_id = 0
    /\ i = 0
    /\ copies = 1
    /\ data_type = RAW
    /\ result = NoResult
    /\ devmode = NoDevMode
    /\ width = 0

Next ==
    \/ CallPrintImage
    \/ PI_OpenPrinter
    \/ PI_DevModeSize
    \/ PI_DevModeGet
    \/ PI_CreateDC
    \/ PI_StartDoc
    \/ PI_StartPage
    \/ PI_CreateCompatibleDC
    \/ PI_CreateCompatibleBitmap
    \/ PI_SetDIBits
    \/ PI_StretchBlt
    \/ PI_Finish
    \/ CallPrintBuffer
    \/ PB_OpenPrinter
    \/ PB_ScanOptions
    \/ PB_StartDoc
    \/ PB_Copy
    \/ PB_Finish

Spec == Init /\ [][Next]_vars
(***************************************************************************)
(* parse_printer_state                                                     *)
(***************************************************************************)
\* The variables of print_image / print_buffer that the other operations
\* leave alone.
printVars == <<log, job_id, i, copies, data_type, devmode, width>>
PrintVarsInit ==
    /\ log = <<>>
    /\ job_id = 0
    /\ i = 0
    /\ copies = 1
    /\ data_type = RAW
    /\ devmode = NoDevMode
    /\ width = 0

\* Bitwise AND of two non-negative integers.
RECURSIVE BitAnd(_, _)
BitAnd(a, b) ==
    IF a = 0 \/ b = 0 THEN 0
    ELSE (a % 2) * (b % 2) + 2 * BitAnd(a \div 2, b \div 2)

\* str::contains: pat occurs in s as a contiguous run of characters.
Contains(s, pat) ==
    \E k \in 0..(Len(s) - Len(pat)) : SubSeq(s, k + 1, k + Len(pat)) = pat

OFFLINE_TEXT == <<"o", "f", "f", "l", "i", "n", "e">>
PENDING_DELETION_TEXT == <<"p", "e", "n", "d", "i", "n", "g", "_", "d", "e", "l", "e", "t", "i", "o", "n">>

\* Variant of ParsePrinterState that tests the PAUSED group before PRINTING.
ParsePrinterState_PausedFirst(platform_state, state_reasons) ==
    IF Contains(state_reasons, OFFLINE_TEXT)
         \/ Contains(state_reasons, PENDING_DELETION_TEXT)
    THEN "OFFLINE"
    ELSE IF platform_state = 0 \/ BitAnd(platform_state, 256 + 16384) # 0
    THEN "READY"
    ELSE IF BitAnd(platform_state, 1 + 2 + 8 + 16 + 32) # 0
    THEN "PAUSED"
    ELSE IF BitAnd(platform_state, 1024) # 0
    THEN "PRINTING"
    ELSE IF BitAnd(platform_state, 128 + 4194304 + 4096 + 4) # 0
    THEN "OFFLINE"
    ELSE "UNKNOWN"

\* Variant of ParsePrinterState without the `s == 0` test of the READY arm.
ParsePrinterState_ZeroNotReady(platform_state, state_reasons) ==
    IF Contains(state_reasons, OFFLINE_TEXT)
         \/ Contains(state_reasons, PENDING_DELETION_TEXT)
    THEN "OFFLINE"
    ELSE IF BitAnd(platform_state, 256 + 16384) # 0
    THEN "READY"
    ELSE IF BitAnd(platform_state, 1024) # 0
    THEN "PRINTING"
    ELSE IF BitAnd(platform_state, 1 + 2 + 8 + 16 + 32) # 0
    THEN "PAUSED"
    ELSE IF BitAnd(platform_state, 128 + 4194304 + 4096 + 4) # 0
    THEN "OFFLINE"
    ELSE "UNKNOWN"

\* Variant of ParsePrinterState that looks only for "offline" in the reasons.
ParsePrinterState_OfflineTextOnly(platform_state, state_reasons) ==
    IF Contains(state_reasons, OFFLINE_TEXT)
    THEN "OFFLINE"
    ELSE IF platform_state = 0 \/ BitAnd(platform_state, 256 + 16384) # 0
    THEN "READY"
    ELSE IF BitAnd(platform_state, 1024) # 0
    THEN "PRINTING"
    ELSE IF BitAnd(platform_state, 1 + 2 + 8 + 16 + 32) # 0
    THEN "PAUSED"
    ELSE IF BitAnd(platform_state, 128 + 4194304 + 4096 + 4) # 0
    THEN "OFFLINE"
    ELSE "UNKNOWN"

\* parse_printer_state: the reason text first, then the match arms in order.
ParsePrinterState(platform_state, state_reasons) ==
    IF Contains(state_reasons, OFFLINE_TEXT)
         \/ Contains(state_reasons, PENDING_DELETION_TEXT)
    THEN "OFFLINE"
    ELSE IF platform_state = 0 \/ BitAnd(platform_state, 256 + 16384) # 0
    THEN "READY"
    ELSE IF BitAnd(platform_state, 1024) # 0
    THEN "PRINTING"
    ELSE IF BitAnd(platform_state, 1 + 2 + 8 + 16 + 32) # 0
    THEN "PAUSED"
    ELSE IF BitAnd(platform_state, 128 + 4194304 + 4096 + 4) # 0
    THEN "OFFLINE"
    ELSE "UNKNOWN"

\* Status words: every combination of the bits parse_printer_state tests and
\* of one bit (0x40, paper_problem) it does not test.
StatusBits == {1, 2, 4, 8, 16, 32, 64, 128, 256, 1024, 4096, 16384, 4194304}
RECURSIVE SetSum(_)
SetSum(S) == IF S = {} THEN 0
             ELSE LET x == CHOOSE y \in S : TRUE IN x + SetSum(S \ {x})
Statuses == { SetSum(S) : S \in SUBSET StatusBits }

\* Reason texts.
ReasonTexts ==
    { <<>>,
      <<"o", "f", "f", "l", "i", "n", "e">>,
      <<"p", "e", "n", "d", "i", "n", "g", "_", "d", "e", "l", "e", "t", "i", "o", "n">>,
      <<"p", "r", "i", "n", "t", "i", "n", "g">>,
      <<"p", "a", "u", "s", "e", "d", ",", "o", "f", "f", "l", "i", "n", "e">>,
      <<"p", "e", "n", "d", "i", "n", "g">> }

InitPrinterState ==
    /\ pc = "call"
    /\ op = "parse_printer_state"
    /\ args \in [platform_state : Statuses, state_reasons : ReasonTexts]
    /\ result = "NONE"
    /\ PrintVarsInit

ApplyParsePrinterState ==
    /\ pc = "call"
    /\ op = "parse_printer_state"
    /\ result' = ParsePrinterState(args.platform_state, args.state_reasons)
    /\ pc' = "done"
    /\ UNCHANGED <<op, args, printVars>>

NextPrinterState == ApplyParsePrinterState

SpecPrinterState == InitPrinterState /\ [][NextPrinterState]_vars

(***************************************************************************)
(* parse_printer_job_state                                                 *)
(***************************************************************************)
JobStates == {"PENDING", "PROCESSING", "PAUSED", "CANCELLED", "COMPLETED",
              "UNKNOWN"}

\* Variant of ParsePrinterJobState that tests the status as a bitmask.
ParsePrinterJobState_AsBitmask(platform_state) ==
    IF BitAnd(platform_state, 1 + 8) # 0 THEN "PAUSED"
    ELSE IF BitAnd(platform_state, 4 + 256) # 0 THEN "CANCELLED"
    ELSE IF BitAnd(platform_state, 16 + 2048 + 8192) # 0 THEN "PROCESSING"
    ELSE IF BitAnd(platform_state, 32 + 64 + 512 + 1024) # 0 THEN "PENDING"
    ELSE IF BitAnd(platform_state, 128) # 0 THEN "COMPLETED"
    ELSE "UNKNOWN"

\* parse_printer_job_state: a match on the whole value.
ParsePrinterJobState(platform_state) ==
    CASE platform_state \in {1, 8} -> "PAUSED"
      [] platform_state \in {4, 256} -> "CANCELLED"
      [] platform_state \in {16, 2048, 8192} -> "PROCESSING"
      [] platform_state \in {32, 64, 512, 1024} -> "PENDING"
      [] platform_state \in {128, 496} -> "COMPLETED"
      [] OTHER -> "UNKNOWN"

\* Raw job status codes: a range, the single JOB_STATUS bits, and the sums
\* of two of them.
JobStatusBits == {1, 2, 4, 8, 16, 32, 64, 128, 256, 512, 1024, 2048, 4096, 8192}
JobCodes ==
    (0..MaxJobCode) \cup { a + b : a \in JobStatusBits, b \in JobStatusBits }
                    \cup JobStatusBits

InitJobState ==
    /\ pc = "call"
    /\ op = "parse_printer_job_state"
    /\ args \in [platform_state : JobCodes]
    /\ result = "NONE"
    /\ PrintVarsInit

ApplyParsePrinterJobState ==
    /\ pc = "call"
    /\ op = "parse_printer_job_state"
    /\ result' = ParsePrinterJobState(args.platform_state)
    /\ pc' = "done"
    /\ UNCHANGED <<op, args, printVars>>

NextJobState == ApplyParsePrinterJobState

SpecJobState == InitJobState /\ [][NextJobState]_vars

(***************************************************************************)
(* get_printer_jobs and set_job_state                                      *)
(***************************************************************************)
\* Result<Vec<PrinterJob>, &str> of enum_printer_jobs.
OkJobs(l) == [kind |-> "Ok", list |-> l, err |-> ""]
ErrJobs(msg) == [kind |-> "Err", list |-> <<>>, err |-> msg]

\* A job list: the job at position k has id k and any canonical state.
JobLists ==
    UNION { { [k \in 1..n |-> [id |-> k, state |-> f[k]]] :
                f \in [1..n -> JobStates] } : n \in 0..MaxJobs }
FetchResults ==
    { OkJobs(l) : l \in JobLists }
    \cup { ErrJobs("OpenPrinterW failed"), ErrJobs("EnumJobsW failed") }

\* Result::unwrap_or_default
UnwrapOrDefault(r) == IF r.kind = "Ok" THEN r.list ELSE <<>>

\* The closure passed to filter().
IsKept(j, active_only) ==
    IF active_only
    THEN j.state = "PENDING" \/ j.state = "PROCESSING" \/ j.state = "PAUSED"
    ELSE TRUE

\* Variant of FilterJobs that also keeps CANCELLED jobs as active.
RECURSIVE FilterJobs_KeepsCancelled(_, _)
FilterJobs_KeepsCancelled(jobs, active_only) ==
    IF jobs = <<>> THEN <<>>
    ELSE (IF IsKept(Head(jobs), active_only) \/ Head(jobs).state = "CANCELLED"
          THEN <<Head(jobs)>> ELSE <<>>)
         \o FilterJobs_KeepsCancelled(Tail(jobs), active_only)

\* into_iter().filter(..).collect()
RECURSIVE FilterJobsFrom(_, _)
FilterJobsFrom(jobs, active_only) ==
    IF jobs = <<>> THEN <<>>
    ELSE (IF IsKept(Head(jobs), active_only) THEN <<Head(jobs)>> ELSE <<>>)
         \o FilterJobsFrom(Tail(jobs), active_only)

\* Variant of FilterJobs that skips the first job when filtering.
FilterJobs_SkipsFirst(jobs, active_only) ==
    IF active_only /\ jobs # <<>>
    THEN FilterJobsFrom(Tail(jobs), active_only)
    ELSE FilterJobsFrom(jobs, active_only)

FilterJobs(jobs, active_only) == FilterJobsFrom(jobs, active_only)

CallGetPrinterJobs ==
    /\ pc = "idle"
    /\ \E f \in FetchResults, a \in BOOLEAN :
          args' = [fetch |-> f, active_only |-> a]
    /\ op' = "get_printer_jobs"
    /\ pc' = "gj_call"
    /\ UNCHANGED <<result, printVars>>

\* get_printer_jobs on the result of enum_printer_jobs.
GetPrinterJobs ==
    /\ pc = "gj_call"
    /\ result' = FilterJobs(UnwrapOrDefault(args.fetch), args.active_only)
    /\ pc' = "done"
    /\ UNCHANGED <<op, args, printVars>>

\* get_printer_jobs(active_only = true) when the fetch returns the list the
\* previous active_only call returned.
GetPrinterJobsAgain ==
    /\ pc = "done"
    /\ op = "get_printer_jobs"
    /\ args.active_only
    /\ args' = [args EXCEPT !.fetch = OkJobs(result)]
    /\ result' = FilterJobs(UnwrapOrDefault(OkJobs(result)), TRUE)
    /\ pc' = "done2"
    /\ UNCHANGED <<op, printVars>>

\* Ok(())
OkUnit == [kind |-> "Ok", val |-> U64Zero, err |-> ""]

NoCommand == [some |-> FALSE, cmd |-> 0]
Command(c) == [some |-> TRUE, cmd |-> c]

\* Variant of PlatformCommand that maps COMPLETED to the delete command.
PlatformCommand_CompletedDeletes(state) ==
    CASE state = "PAUSED" -> Command(1)
      [] state = "PENDING" -> Command(4)
      [] state = "CANCELLED" -> Command(5)
      [] state = "PROCESSING" -> Command(2)
      [] state = "COMPLETED" -> Command(5)
      [] OTHER -> NoCommand

\* The match of PlatformActions::set_job_state.
PlatformCommand(state) ==
    CASE state = "PAUSED" -> Command(1)
      [] state = "PENDING" -> Command(4)
      [] state = "CANCELLED" -> Command(5)
      [] state = "PROCESSING" -> Command(2)
      [] OTHER -> NoCommand

SetJobIds == {1, 7}

CallSetJobState ==
    /\ pc = "idle"
    /\ \E st \in JobStates, j \in SetJobIds :
          args' = [state |-> st, job_id |-> j]
    /\ op' = "set_job_state"
    /\ pc' = "sj_match"
    /\ log' = <<>>
    /\ UNCHANGED <<result, job_id, i, copies, data_type, devmode, width>>

\* PlatformActions::set_job_state: the match on the target state.
SJ_Match ==
    /\ pc = "sj_match"
    /\ IF PlatformCommand(args.state).some
       THEN /\ pc' = "sj_open"
            /\ result' = result
       ELSE /\ pc' = "done"
            /\ result' = Err("Operation canot be defined")
    /\ UNCHANGED <<op, args, printVars>>

\* winspool::jobs::set_job_state: open_printer.
SJ_OpenPrinter ==
    /\ pc = "sj_open"
    /\ \E r \in BoolRets :
          /\ log' = Append(log, Ev("OpenPrinterW", "printer_handle", r))
          /\ IF r = 0
             THEN /\ result' = Err("OpenPrinterW failed")
                  /\ pc' = "done"
             ELSE /\ result' = result
                  /\ pc' = "sj_setjob"
    /\ UNCHANGED <<op, args, job_id, i, copies, data_type, devmode, width>>

\* winspool::jobs::set_job_state: SetJobW, ClosePrinter, the result.
SJ_SetJob ==
    /\ pc = "sj_setjob"
    /\ \E r \in BoolRets :
          /\ log' = log \o << EvN("SetJobW", "printer_handle", r,
                                  PlatformCommand(args.state).cmd),
                              Ev("ClosePrinter", "printer_handle", 1) >>
          /\ result' = IF r = 0 THEN Err("SetJobW failed") ELSE OkUnit
    /\ pc' = "done"
    /\ UNCHANGED <<op, args, job_id, i, copies, data_type, devmode, width>>

InitJobs ==
    /\ pc = "idle"
    /\ op = "none"
    /\ args = NoArgs
    /\ result = NoResult
    /\ PrintVarsInit

NextJobs ==
    \/ CallGetPrinterJobs
    \/ GetPrinterJobs
    \/ GetPrinterJobsAgain
    \/ CallSetJobState
    \/ SJ_Match
    \/ SJ_OpenPrinter
    \/ SJ_SetJob

SpecJobs == InitJobs /\ [][NextJobs]_vars

(***************************************************************************)
(* get_device_caps                                                         *)
(***************************************************************************)
\* An integer of up to 33 bits written as [h, l] = h * 65536 + l with
\* 0 <= l < 65536, so that the exact difference of two i32 can be written.
Wide(x) == [h |-> x \div 65536, l |-> x % 65536]
WideSub(a, b) ==
    IF a.l - b.l < 0
    THEN [h |-> a.h - b.h - 1, l |-> a.l - b.l + 65536]
    ELSE [h |-> a.h - b.h, l |-> a.l - b.l]
FitsI32(w) == w.h >= -32768 /\ w.h <= 32767
\* The i32 congruent to w modulo 2^32.
WrapI32(w) == (((w.h + 32768) % 65536) - 32768) * 65536 + w.l

\* a - b on i32: whether it overflows, and the wrapped result.
SubI32(a, b) ==
    [overflow |-> ~FitsI32(WideSub(Wide(a), Wide(b))),
     val |-> WrapI32(WideSub(Wide(a), Wide(b)))]

\* Variant of Margin that clamps a negative margin to 0.
Margin_ClampsAtZero(page, table, offset) ==
    LET d1 == SubI32(page, table)
        d2 == SubI32(d1.val, offset)
    IN [overflow |-> d1.overflow \/ d2.overflow,
        val |-> IF d2.val < 0 THEN 0 ELSE d2.val]

\* page - table - offset, evaluated left to right on i32.
Margin(page, table, offset) ==
    LET d1 == SubI32(page, table)
        d2 == SubI32(d1.val, offset)
    IN [overflow |-> d1.overflow \/ d2.overflow, val |-> d2.val]

\* Values GetDeviceCaps may report.
DpiVals == {0, 600}
CapVals == {I32Min, -1, 0, 7, I32Max}

CapIndexes == << "LOGPIXELSX", "LOGPIXELSY", "PHYSICALWIDTH", "PHYSICALHEIGHT",
                 "HORZRES", "VERTRES", "PHYSICALOFFSETX", "PHYSICALOFFSETY" >>

\* The value the logged GetDeviceCaps query of index `idx` returned.
Queried(idx) ==
    log[CHOOSE k \in DOMAIN log :
            log[k].fn = "GetDeviceCaps" /\ log[k].arg = idx].ret

\* overflow_checks: whether the build panics on integer overflow (debug
\* profile) or wraps (release profile).
CallGetDeviceCaps ==
    /\ pc = "idle"
    /\ \E oc \in BOOLEAN : args' = [overflow_checks |-> oc]
    /\ op' = "get_device_caps"
    /\ pc' = "gc_createdc"
    /\ UNCHANGED <<result, printVars>>

\* Variant of GC_CreateDC that gives up when CreateDCW fails.
GC_CreateDC_StopsOnFailure ==
    /\ pc = "gc_createdc"
    /\ \E r \in BoolRets :
          /\ log' = Append(log, Ev("CreateDCW", "hdc", r))
          /\ pc' = IF r = 0 THEN "done" ELSE "gc_query"
          /\ result' = IF r = 0 THEN Err("Failed to create device context")
                       ELSE result
    /\ UNCHANGED <<op, args, job_id, i, copies, data_type, devmode, width>>

\* CreateDCW; the handle is not tested.
GC_CreateDC ==
    /\ pc = "gc_createdc"
    /\ \E r \in BoolRets :
          log' = Append(log, Ev("CreateDCW", "hdc", r))
    /\ pc' = "gc_query"
    /\ UNCHANGED <<op, args, job_id, i, copies, data_type, devmode, width, result>>

\* The eight GetDeviceCaps queries.
GC_Query ==
    /\ pc = "gc_query"
    /\ \E dx \in DpiVals, dy \in DpiVals, pw \in CapVals, ph \in CapVals,
          tw \in CapVals, th \in CapVals, ml \in CapVals, mt \in CapVals :
          log' = log \o
              [k \in 1..8 |-> Ev("GetDeviceCaps", CapIndexes[k],
                                 <<dx, dy, pw, ph, tw, th, ml, mt>>[k])]
    /\ pc' = "gc_margins"
    /\ UNCHANGED <<op, args, job_id, i, copies, data_type, devmode, width, result>>

\* The two margin subtractions, DeleteDC and the DeviceCaps value; a
\* subtraction that overflows panics when overflow checks are on.
GC_Finish ==
    /\ pc = "gc_margins"
    /\ LET mr == Margin(Queried("PHYSICALWIDTH"), Queried("HORZRES"),
                        Queried("PHYSICALOFFSETX"))
           mb == Margin(Queried("PHYSICALHEIGHT"), Queried("VERTRES"),
                        Queried("PHYSICALOFFSETY"))
       IN IF args.overflow_checks /\ (mr.overflow \/ mb.overflow)
          THEN /\ result' = [kind |-> "Panic"]
               /\ log' = log
               /\ pc' = "panicked"
          ELSE /\ result' =
                    [kind |-> "Caps",
                     dpi_x |-> Queried("LOGPIXELSX"),
                     dpi_y |-> Queried("LOGPIXELSY"),
                     page_width |-> Queried("PHYSICALWIDTH"),
                     page_height |-> Queried("PHYSICALHEIGHT"),
                     print_table_width |-> Queried("HORZRES"),
                     print_table_height |-> Queried("VERTRES"),
                     margin_top |-> Queried("PHYSICALOFFSETY"),
                     margin_left |-> Queried("PHYSICALOFFSETX"),
                     margin_right |-> mr.val,
                     margin_bottom |-> mb.val]
               /\ log' = Append(log, Ev("DeleteDC", "hdc", 1))
               /\ pc' = "done"
    /\ UNCHANGED <<op, args, job_id, i, copies, data_type, devmode, width>>

InitCaps ==
    /\ pc = "idle"
    /\ op = "none"
    /\ args = NoArgs
    /\ result = NoResult
    /\ PrintVarsInit

NextCaps ==
    \/ CallGetDeviceCaps
    \/ GC_CreateDC
    \/ GC_Query
    \/ GC_Finish

SpecCaps == InitCaps /\ [][NextCaps]_vars

(***************************************************************************)
(* enum_printer_jobs                                                       *)
(***************************************************************************)
\* The size the spooler reports for a queue.
BytesFor(queue) == Len(queue) * 64

\* What the size query (EnumJobsW without a buffer) can report for a queue:
\* success with 0 bytes for an empty queue, failure with insufficient-buffer
\* and the size needed for a non-empty one, or another failure that reports
\* no size.
SizeQueryOutcomes(queue) ==
    { IF queue = <<>>
      THEN [ok |-> 1, bytes_needed |-> 0]
      ELSE [ok |-> 0, bytes_needed |-> BytesFor(queue)],
      [ok |-> 0, bytes_needed |-> 0] }

\* queue: the jobs the spooler holds for the printer.
CallEnumPrinterJobs ==
    /\ pc = "idle"
    /\ \E q \in JobLists : args' = [queue |-> q]
    /\ op' = "enum_printer_jobs"
    /\ pc' = "ej_open"
    /\ UNCHANGED <<result, printVars>>

\* open_printer(printer_name)?
EJ_OpenPrinter ==
    /\ pc = "ej_open"
    /\ \E r \in BoolRets :
          /\ log' = Append(log, Ev("OpenPrinterW", "printer_handle", r))
          /\ IF r = 0
             THEN /\ result' = ErrJobs("OpenPrinterW failed")
                  /\ pc' = "done"
             ELSE /\ result' = result
                  /\ pc' = "ej_enum"
    /\ UNCHANGED <<op, args, job_id, i, copies, data_type, devmode, width>>

\* The size query, the early return, the fill call, ClosePrinter and the
\* conversion of the records.
EJ_EnumJobs ==
    /\ pc = "ej_enum"
    /\ \E first \in SizeQueryOutcomes(args.queue) :
          IF first.ok = 0 \/ first.bytes_needed = 0
          THEN /\ log' = log \o
                     << EvN("EnumJobsW", "size", first.ok, first.bytes_needed),
                        Ev("ClosePrinter", "printer_handle", 1) >>
               /\ result' = OkJobs(<<>>)
          ELSE \E second \in BoolRets :
               /\ log' = log \o
                     << EvN("EnumJobsW", "size", first.ok, first.bytes_needed),
                        EvN("EnumJobsW", "fill", second, first.bytes_needed),
                        Ev("ClosePrinter", "printer_handle", 1) >>
               /\ result' = IF second = 0 THEN ErrJobs("EnumJobsW failed")
                            ELSE OkJobs(args.queue)
    /\ pc' = "done"
    /\ UNCHANGED <<op, args, job_id, i, copies, data_type, devmode, width>>

InitEnumJobs ==
    /\ pc = "idle"
    /\ op = "none"
    /\ args = NoArgs
    /\ result = NoResult
    /\ PrintVarsInit

NextEnumJobs ==
    \/ CallEnumPrinterJobs
    \/ EJ_OpenPrinter
    \/ EJ_EnumJobs

SpecEnumJobs == InitEnumJobs /\ [][NextEnumJobs]_vars

(***************************************************************************)
(* Reading the log                                                         *)
(***************************************************************************)
Count(fn) == Cardinality({k \in DOMAIN log : log[k].fn = fn})
CountArg(fn, arg) ==
    Cardinality({k \in DOMAIN log : log[k].fn = fn /\ log[k].arg = arg})
CountOk(fn) ==
    Cardinality({k \in DOMAIN log : log[k].fn = fn /\ log[k].ret > 0})

\* The calls of the log without their return values.
CallOf(e) == <<e.fn, e.arg>>
Calls == [k \in DOMAIN log |-> CallOf(log[k])]

\* The resource a call acquires ("none" when it acquires nothing or fails).
Acquired(e) ==
    CASE e.fn = "OpenPrinterW" /\ e.ret > 0 -> "session"
      [] e.fn = "CreateDCW" /\ e.ret > 0 -> "hdc"
      [] e.fn \in {"StartDocW", "StartDocPrinterW"} /\ e.ret > 0 -> "doc"
      [] e.fn \in {"StartPage", "StartPagePrinter"} /\ e.ret > 0 -> "page"
      [] e.fn = "CreateCompatibleDC" /\ e.ret > 0 -> "mem_dc"
      [] e.fn = "CreateCompatibleBitmap" /\ e.ret > 0 -> "bitmap"
      [] e.fn = "SelectObject" /\ e.arg = "bitmap" -> "selection"
      [] OTHER -> "none"

\* The resource a call releases ("none" when it releases nothing).
Released(e) ==
    CASE e.fn = "SelectObject" /\ e.arg = "old_bitmap" -> "selection"
      [] e.fn = "DeleteObject" -> "bitmap"
      [] e.fn = "DeleteDC" -> e.arg
      [] e.fn \in {"EndPage", "EndPagePrinter"} -> "page"
      [] e.fn \in {"EndDoc", "EndDocPrinter"} -> "doc"
      [] e.fn = "ClosePrinter" -> "session"
      [] OTHER -> "none"

Without(seq, r) == SelectSeq(seq, LAMBDA x : x # r)
InSeq(seq, r) == \E k \in DOMAIN seq : seq[k] = r

\* The resources held after the first k calls of the log, oldest first.
RECURSIVE HeldAt(_)
HeldAt(k) ==
    IF k = 0 THEN <<>>
    ELSE LET h == HeldAt(k - 1)
             e == log[k]
         IN IF Acquired(e) # "none" THEN Append(h, Acquired(e))
            ELSE IF Released(e) # "none" THEN Without(h, Released(e))
            ELSE h

Held == HeldAt(Len(log))

Returned == pc = "done"
Opened == Len(log) >= 1 /\ log[1].fn = "OpenPrinterW" /\ log[1].ret > 0

PageErrors == { "Failed to create compatible DC",
                "Failed to create compatible bitmap",
                "Failed to set DIB bits",
                "Failed to stretch blit image" }
SubSteps == { "CreateCompatibleDC", "CreateCompatibleBitmap",
              "SetDIBits", "StretchBlt" }
\* The document start and every page start so far succeeded.
BeginsOk == job_id > 0 /\ CountOk("StartPage") = Count("StartPage")
FailedSubStep(k) == log[k].fn \in SubSteps /\ log[k].ret = 0

(***************************************************************************)
(* Claims                                                                  *)
(***************************************************************************)

\* C1: when print_image returns after OpenPrinterW succeeded, the printer
\* handle has been closed by exactly one ClosePrinter call.
C1_SessionClosedOnReturn ==
    (Returned /\ op = "print_image" /\ Opened) => Count("ClosePrinter") = 1

\* C2: when print_image returns one of the four per-page sub-step errors
\* (the document start and every page start having succeeded),
\* everything acquired has been released: the bitmap deselected and deleted
\* if created, the memory DC deleted if created, the begun page ended, the
\* document ended, the printer DC deleted and the printer handle closed.
C2_SubStepFailureReleasesAll ==
    (Returned /\ op = "print_image" /\ result.err \in PageErrors
              /\ BeginsOk) =>
        /\ CountArg("SelectObject", "old_bitmap") = CountArg("SelectObject", "bitmap")
        /\ Count("DeleteObject") = CountOk("CreateCompatibleBitmap")
        /\ CountArg("DeleteDC", "mem_dc") = CountOk("CreateCompatibleDC")
        /\ Count("EndPage") = Count("StartPage")
        /\ Count("EndDoc") = 1
        /\ CountArg("DeleteDC", "hdc") = 1
        /\ Count("ClosePrinter") = 1

\* C3: in print_image and print_buffer (the document start and every page
\* start having succeeded) no resource is released while a resource acquired
\* after it is still held: every release call releases the most recently
\* acquired resource among those held.
C3_ReleaseInReverseOrder ==
    BeginsOk => \A k \in DOMAIN log :
        LET r == Released(log[k]) IN
            (r # "none" /\ InSeq(HeldAt(k - 1), r)) =>
                HeldAt(k - 1)[Len(HeldAt(k - 1))] = r

\* C4: in print_image, once a per-page sub-step has failed no further page is
\* begun; when the call returns a sub-step error on page k = i + 1 of
\* page_count, exactly k StartPage calls were made, k <= page_count, exactly
\* k - 1 pages completed, and the result is an error; Ok is returned only
\* when each of the four sub-steps succeeded page_count times, and then it
\* carries the value StartDocW returned.
C4_FailureStopsPages ==
    op = "print_image" =>
        /\ \A k \in DOMAIN log : \A m \in DOMAIN log :
              (FailedSubStep(k) /\ m > k) => log[m].fn # "StartPage"
        /\ (Returned /\ \E k \in DOMAIN log : FailedSubStep(k)) =>
              /\ result.kind = "Err"
              /\ result.err \in PageErrors
        /\ (Returned /\ result.err \in PageErrors) =>
              /\ Count("StartPage") = i + 1
              /\ i + 1 <= args.page_count
              /\ CountOk("StretchBlt") = i
              /\ result.kind = "Err"
        /\ (Returned /\ result.kind = "Ok") =>
              /\ \A f \in SubSteps : CountOk(f) = args.page_count
              /\ \A k \in DOMAIN log : ~FailedSubStep(k)
              /\ result.val.off = job_id

\* C4 witness: the memory-DC creation failed on page 2 of a 3-page job.
C4_Witness ==
    /\ Returned /\ op = "print_image"
    /\ args.page_count = 3
    /\ result = Err("Failed to create compatible DC")
    /\ Count("StartPage") = 2
    /\ CountOk("StretchBlt") = 1

\* The OS calls of one page of print_image when every call succeeds.
PageCycle ==
    << <<"StartPage", "hdc">>,
       <<"CreateCompatibleDC", "mem_dc">>,
       <<"CreateCompatibleBitmap", "bitmap">>,
       <<"SelectObject", "bitmap">>,
       <<"SetDIBits", "bitmap">>,
       <<"SetStretchBltMode", "HALFTONE">>,
       <<"StretchBlt", "hdc">>,
       <<"SelectObject", "old_bitmap">>,
       <<"DeleteObject", "bitmap">>,
       <<"DeleteDC", "mem_dc">>,
       <<"EndPage", "hdc">> >>

RECURSIVE Repeat(_, _)
Repeat(seq, n) == IF n <= 0 THEN <<>> ELSE seq \o Repeat(seq, n - 1)

\* Every logged call succeeded.
AllCallsOk ==
    \A k \in DOMAIN log :
        IF log[k].fn = "DocumentPropertiesW" /\ log[k].arg = "DM_OUT_BUFFER"
        THEN log[k].ret = IDOK
        ELSE log[k].ret > 0

\* C5: when every OS call succeeds, a returned print_image call with
\* page_count = n made exactly the calls: open, (the two configuration
\* fetches when a dimension is given,) create DC, one StartDocW, n complete
\* strictly sequential page cycles each with its own memory DC and bitmap,
\* one EndDoc, DeleteDC, ClosePrinter; and it returned Ok with the job id
\* StartDocW returned.
C5_SuccessfulImageRun ==
    (Returned /\ op = "print_image" /\ AllCallsOk) =>
        /\ Calls = << <<"OpenPrinterW", "printer_handle">> >>
                   \o (IF args.print_width.some \/ args.print_height.some
                       THEN << <<"DocumentPropertiesW", "size">>,
                               <<"DocumentPropertiesW", "DM_OUT_BUFFER">> >>
                       ELSE <<>>)
                   \o << <<"CreateDCW", "hdc">>, <<"StartDocW", "hdc">> >>
                   \o Repeat(PageCycle, args.page_count)
                   \o << <<"EndDoc", "hdc">>, <<"DeleteDC", "hdc">>,
                         <<"ClosePrinter", "printer_handle">> >>
        /\ \E k \in DOMAIN log :
              /\ log[k].fn = "StartDocW"
              /\ result = Ok([base |-> 0, off |-> log[k].ret])

\* C5 witness: a fully successful 2-page job.
C5_Witness ==
    /\ Returned /\ op = "print_image" /\ AllCallsOk
    /\ args.page_count = 2
    /\ Count("EndPage") = 2
    /\ result.kind = "Ok"

\* C6: when OpenPrinterW fails in print_image the call makes no other OS call
\* (no device context, no document, no page, no release call) and returns
\* the open-failed error.
C6_OpenFailureDoesNothingElse ==
    (op = "print_image" /\ Len(log) >= 1 /\ log[1].ret = 0) =>
        /\ Len(log) = 1
        /\ Returned
        /\ result = Err("Failed to open printer")

\* C6 witness: print_image returned after a failed OpenPrinterW.
C6_Witness ==
    /\ Returned /\ op = "print_image"
    /\ Len(log) = 1 /\ log[1].fn = "OpenPrinterW" /\ log[1].ret = 0

\* The document started by print_buffer, if any.
PB_DocStarted ==
    \E k \in DOMAIN log : log[k].fn = "StartDocPrinterW" /\ log[k].ret # 0

\* 'copies' values that are non-numeric, zero or negative.
BadCopies == { <<"x">>, <<>>, <<"0">>, <<"-", "1">> }

\* C7: print_buffer with the single option copies = v, v non-numeric, zero
\* or negative, attempts exactly one page-write cycle and returns a job id
\* (when the open and the document start succeed).
C7_BadCopiesFallBackToOne ==
    (Returned /\ op = "print_buffer" /\ PB_DocStarted
       /\ \E v \in BadCopies : args.options = << <<"copies", v>> >>) =>
        /\ Count("StartPagePrinter") = 1
        /\ result.kind = "Ok"

\* The integer a decimal 'copies' literal of the model denotes.
PositiveCopies == { <<"2">>, <<"+", "3">> }
Denotes(v) == IF v = <<"2">> THEN 2 ELSE 3

\* The options name the copy count n: no 'copies' option and n = 1, or
\* exactly one 'copies' option, whose value is a positive literal denoting n.
CopiesIs(n) ==
    LET ks == {k \in DOMAIN args.options : args.options[k][1] = "copies"}
    IN \/ ks = {} /\ n = 1
       \/ \E k \in ks : /\ ks = {k}
                        /\ args.options[k][2] \in PositiveCopies
                        /\ n = Denotes(args.options[k][2])

CopyCycle ==
    << <<"StartPagePrinter", "printer_handle">>,
       <<"WritePrinter", "buffer">>,
       <<"EndPagePrinter", "printer_handle">> >>

\* C8: when every OS call succeeds, a returned print_buffer call whose
\* options give copies = n (1 without a copies option) made exactly the
\* calls: open, one StartDocPrinterW, n cycles of StartPagePrinter /
\* WritePrinter of the whole buffer / EndPagePrinter, one EndDocPrinter, one
\* ClosePrinter; and it returned Ok with the value StartDocPrinterW returned.
C8_SuccessfulBufferRun ==
    \A n \in 1..3 :
        (Returned /\ op = "print_buffer" /\ AllCallsOk /\ CopiesIs(n)) =>
            /\ Calls = << <<"OpenPrinterW", "printer_handle">>,
                          <<"StartDocPrinterW", "printer_handle">> >>
                       \o Repeat(CopyCycle, n)
                       \o << <<"EndDocPrinter", "printer_handle">>,
                             <<"ClosePrinter", "printer_handle">> >>
            /\ \A k \in DOMAIN log :
                  log[k].fn = "WritePrinter" => log[k].n = args.buf_len
            /\ \E k \in DOMAIN log :
                  /\ log[k].fn = "StartDocPrinterW"
                  /\ result = Ok([base |-> 0, off |-> log[k].ret])

\* C8 witness: a fully successful run with copies = 3 and a non-empty buffer.
C8_Witness ==
    /\ Returned /\ op = "print_buffer" /\ AllCallsOk /\ CopiesIs(3)
    /\ args.buf_len > 0
    /\ Count("WritePrinter") = 3
    /\ result.kind = "Ok"

\* C9: in print_buffer ClosePrinter is never called more than once, a
\* returned call that opened the printer called it exactly once, as its last
\* OS call; and when StartDocPrinterW returns 0 no page is started, nothing
\* is written, EndDocPrinter is not called and an error is returned.
C9_BufferSessionReleased ==
    op = "print_buffer" =>
        /\ Count("ClosePrinter") <= 1
        /\ (Returned /\ Opened) =>
              /\ Count("ClosePrinter") = 1
              /\ log[Len(log)].fn = "ClosePrinter"
        /\ (Returned /\ ~Opened) => Count("ClosePrinter") = 0
        /\ (Returned /\ Opened /\ ~PB_DocStarted) =>
              /\ Count("StartDocPrinterW") = 1
              /\ Count("StartPagePrinter") = 0
              /\ Count("WritePrinter") = 0
              /\ Count("EndDocPrinter") = 0
              /\ result.kind = "Err"

\* C9 witness: print_buffer returned after StartDocPrinterW failed.
C9_Witness ==
    /\ Returned /\ op = "print_buffer" /\ Opened /\ ~PB_DocStarted
    /\ Count("StartDocPrinterW") = 1
    /\ Count("ClosePrinter") = 1

\* Iterations of `0..copies`.
Iterations == IF copies > 0 THEN copies ELSE 0

\* C10: in print_buffer, once the document has started, every one of the
\* `copies` iterations is attempted whatever the outcomes of the page starts
\* and writes: a failed page start skips that copy's write and end-page, a
\* failed write does not; the document is ended and Ok(job id) is returned.
C10_CopiesAreBestEffort ==
    (Returned /\ op = "print_buffer" /\ PB_DocStarted) =>
        /\ Count("StartPagePrinter") = Iterations
        /\ Count("WritePrinter") = CountOk("StartPagePrinter")
        /\ Count("EndPagePrinter") = CountOk("StartPagePrinter")
        /\ Count("EndDocPrinter") = 1
        /\ result.kind = "Ok"
        /\ result.val = [base |-> 0, off |-> job_id]

\* C10 witness: three copies, the first page start failed, every write
\* failed, and Ok was returned.
C10_Witness ==
    /\ Returned /\ op = "print_buffer" /\ copies = 3
    /\ \E k \in DOMAIN log : log[k].fn = "StartPagePrinter" /\ log[k].ret = 0
                             /\ \E m \in k + 1 .. Len(log) : log[m].fn = "WritePrinter"
    /\ Count("WritePrinter") = 2
    /\ CountOk("WritePrinter") = 0
    /\ result.kind = "Ok"

\* The DEVMODE fields print_image never writes.
OtherFields(dm) == <<dm.dmOrientation, dm.dmPaperSize>>

\* The flags of the dimensions given.
GivenFlags ==
    (IF args.print_height.some THEN {"DM_PAPERLENGTH"} ELSE {})
    \cup (IF args.print_width.some THEN {"DM_PAPERWIDTH"} ELSE {})

\* C20: after the configuration fetch of print_image succeeded, the DEVMODE
\* passed to CreateDCW differs from the fetched one only in the paper length
\* and/or width of the dimensions given, and its dmFields is the fetched
\* dmFields plus the flag of each given dimension.
C20_OnlyGivenDimensionsChange ==
    (op = "print_image" /\ pc \notin {"idle", "pi_open", "pi_devmode_size",
                                       "pi_devmode_get"}
       /\ \E k \in DOMAIN log : /\ log[k].fn = "DocumentPropertiesW"
                                /\ log[k].arg = "DM_OUT_BUFFER"
                                /\ log[k].ret = IDOK) =>
        /\ OtherFields(devmode.passed) = OtherFields(devmode.fetched)
        /\ args.print_height.some \/
              devmode.passed.dmPaperLength = devmode.fetched.dmPaperLength
        /\ args.print_width.some \/
              devmode.passed.dmPaperWidth = devmode.fetched.dmPaperWidth
        /\ devmode.passed.dmFields = devmode.fetched.dmFields \cup GivenFlags

\* Bit `bit` (a power of two) is set in status word s.
Has(s, bit) == (s \div bit) % 2 = 1
HasAny(s, bits) == \E b \in bits : Has(s, b)

Applied(f) == pc = "done" /\ op = f

\* C11 as stated: a status with the printing bit (0x400) and a reason text
\* without "offline" is PRINTING, whatever other bits are set.
C11_PrintingBitWins ==
    (Applied("parse_printer_state") /\ Has(args.platform_state, 1024)
       /\ ~Contains(args.state_reasons, OFFLINE_TEXT)) =>
        result = "PRINTING"

\* C11 amended: a status with the printing bit (0x400) and neither io_active
\* (0x100) nor processing (0x4000), with a reason text containing neither
\* "offline" nor "pending_deletion", is PRINTING whatever other bits are set;
\* with io_active or processing set it is READY.
C11_PrintingBitWinsUnlessReady ==
    (Applied("parse_printer_state") /\ Has(args.platform_state, 1024)
       /\ ~Contains(args.state_reasons, OFFLINE_TEXT)
       /\ ~Contains(args.state_reasons, PENDING_DELETION_TEXT)) =>
        result = IF HasAny(args.platform_state, {256, 16384})
                 THEN "READY" ELSE "PRINTING"

\* C11 witness: printing together with paused, offline and door_open bits.
C11_Witness ==
    /\ Applied("parse_printer_state")
    /\ args.platform_state = 1024 + 1 + 128 + 4194304
    /\ args.state_reasons = <<"p", "r", "i", "n", "t", "i", "n", "g">>
    /\ result = "PRINTING"

\* The five groups in priority order, with the given PAUSED group.
Classify(s, pausedBits) ==
    IF s = 0 \/ HasAny(s, {256, 16384}) THEN "READY"
    ELSE IF Has(s, 1024) THEN "PRINTING"
    ELSE IF HasAny(s, pausedBits) THEN "PAUSED"
    ELSE IF HasAny(s, {128, 4194304, 4096, 4}) THEN "OFFLINE"
    ELSE "UNKNOWN"

NoOfflineText ==
    /\ ~Contains(args.state_reasons, OFFLINE_TEXT)
    /\ ~Contains(args.state_reasons, PENDING_DELETION_TEXT)

\* C12 as stated: without "offline" / "pending_deletion" in the reason text
\* the result is the first matching group of READY, PRINTING, PAUSED =
\* {paused, error, pending_deletion, paper_jam, paper_out, manual_feed},
\* OFFLINE, UNKNOWN.
C12_FiveGroupsAsStated ==
    (Applied("parse_printer_state") /\ NoOfflineText) =>
        result = Classify(args.platform_state, {1, 2, 4, 8, 16, 32})

\* C12 amended: the same with PAUSED = {paused, error, paper_jam, paper_out,
\* manual_feed}; pending_deletion (0x4) belongs to the OFFLINE group only, so
\* a status of only pending_deletion is OFFLINE.
C12_FiveGroups ==
    (Applied("parse_printer_state") /\ NoOfflineText) =>
        /\ result = Classify(args.platform_state, {1, 2, 8, 16, 32})
        /\ args.platform_state = 0 => result = "READY"
        /\ args.platform_state = 4 => result = "OFFLINE"

\* C12 witness: the status with only pending_deletion and an empty reason.
C12_Witness ==
    /\ Applied("parse_printer_state")
    /\ args.platform_state = 4
    /\ args.state_reasons = <<>>
    /\ result = "OFFLINE"

\* C13: a reason text containing "offline" or "pending_deletion" gives
\* OFFLINE for every status word.
C13_ReasonTextWins ==
    (Applied("parse_printer_state")
       /\ (Contains(args.state_reasons, OFFLINE_TEXT)
             \/ Contains(args.state_reasons, PENDING_DELETION_TEXT))) =>
        result = "OFFLINE"

\* C13 witness: "pending_deletion" with the printing and io_active bits set.
C13_Witness ==
    /\ Applied("parse_printer_state")
    /\ args.platform_state = 1024 + 256
    /\ args.state_reasons = PENDING_DELETION_TEXT
    /\ result = "OFFLINE"

\* The codes the claim lists for each canonical job state.
ListedCodes ==
    [st \in {"PAUSED", "CANCELLED", "PROCESSING", "PENDING", "COMPLETED"} |->
        CASE st = "PAUSED" -> {1, 8}
          [] st = "CANCELLED" -> {4, 256}
          [] st = "PROCESSING" -> {16, 2048, 8192}
          [] st = "PENDING" -> {32, 64, 512, 1024}
          [] st = "COMPLETED" -> {128, 496}]

\* C15: parse_printer_job_state yields a canonical state for every code; a
\* listed code yields its state, and every other code, 0 and the sums of two
\* status bits included, yields UNKNOWN.
C15_JobStateTable ==
    Applied("parse_printer_job_state") =>
        /\ result \in {"PENDING", "PROCESSING", "PAUSED", "CANCELLED",
                       "COMPLETED", "UNKNOWN"}
        /\ \A st \in DOMAIN ListedCodes :
              args.platform_state \in ListedCodes[st] <=> result = st
        /\ (\A st \in DOMAIN ListedCodes :
              args.platform_state \notin ListedCodes[st]) => result = "UNKNOWN"

\* C15 witness: 1 + 8, the sum of the two PAUSED codes, is UNKNOWN.
C15_Witness ==
    /\ Applied("parse_printer_job_state")
    /\ args.platform_state = 9
    /\ result = "UNKNOWN"

\* The command code of a resume request (JOB_CONTROL_RESUME).
JOB_CONTROL_RESUME == 2

SetJobCalls == {k \in DOMAIN log : log[k].fn = "SetJobW"}

\* What C14 says of every target state but the resume reading of PENDING:
\* COMPLETED and UNKNOWN return an error with no OS call at all; the other
\* four states, once the printer is open, issue exactly one SetJobW.
C14_CommandOnlyForFourStates ==
    (Applied("set_job_state")) =>
        /\ args.state \in {"COMPLETED", "UNKNOWN"} =>
              /\ log = <<>>
              /\ result = Err("Operation canot be defined")
        /\ args.state \in {"PAUSED", "PENDING", "CANCELLED", "PROCESSING"} =>
              /\ Len(log) >= 1 /\ log[1].fn = "OpenPrinterW"
              /\ Opened => Cardinality(SetJobCalls) = 1
              /\ ~Opened => SetJobCalls = {}

\* C14 as stated: the above, and PENDING and PROCESSING both send the resume
\* command.
C14_PendingAndProcessingResume ==
    /\ C14_CommandOnlyForFourStates
    /\ (Applied("set_job_state") /\ args.state \in {"PENDING", "PROCESSING"}) =>
          \A k \in SetJobCalls : log[k].n = JOB_CONTROL_RESUME

\* C14 amended: the above, with the command codes the code sends: PAUSED 1
\* (pause), PROCESSING 2 (resume), PENDING 4 (restart), CANCELLED 5 (delete).
C14_CommandPerState ==
    /\ C14_CommandOnlyForFourStates
    /\ Applied("set_job_state") =>
          \A k \in SetJobCalls :
              log[k].n = CASE args.state = "PAUSED" -> 1
                           [] args.state = "PROCESSING" -> 2
                           [] args.state = "PENDING" -> 4
                           [] args.state = "CANCELLED" -> 5
                           [] OTHER -> 0 - 1

\* C14 witness: a PENDING request that reached SetJobW and succeeded.
C14_Witness ==
    /\ Applied("set_job_state")
    /\ args.state = "PENDING"
    /\ \E k \in SetJobCalls : log[k].n = 4 /\ log[k].ret = 1
    /\ result.kind = "Ok"

ActiveStates == {"PENDING", "PROCESSING", "PAUSED"}
Fetched == IF args.fetch.kind = "Ok" THEN args.fetch.list ELSE <<>>

\* C16: get_printer_jobs returns, in their original order and unaltered,
\* exactly the fetched jobs in state PENDING, PROCESSING or PAUSED when
\* active_only, the whole fetched list otherwise, and the empty list when
\* the fetch failed.
C16_ActiveFilter ==
    Applied("get_printer_jobs") =>
        /\ \A k \in DOMAIN result :
              /\ result[k].id \in DOMAIN Fetched
              /\ result[k] = Fetched[result[k].id]
        /\ \A k \in DOMAIN result : \A m \in DOMAIN result :
              k < m => result[k].id < result[m].id
        /\ { result[k].id : k \in DOMAIN result } =
              { k \in DOMAIN Fetched :
                    args.active_only => Fetched[k].state \in ActiveStates }
        /\ ~args.active_only => result = Fetched
        /\ args.fetch.kind = "Err" => result = <<>>

\* C16 witness: active_only on a list of three jobs of which the middle one
\* is COMPLETED.
C16_Witness ==
    /\ Applied("get_printer_jobs")
    /\ args.active_only
    /\ Len(Fetched) = 3
    /\ Fetched[2].state = "COMPLETED"
    /\ Len(result) = 2
    /\ result[2].id = 3

\* C17: the active_only filter applied to a list it returned gives that list
\* back.
C17_FilterIdempotent ==
    (pc = "done2" /\ op = "get_printer_jobs") => result = args.fetch.list

\* C17 witness: the second filtering of a list that lost a job in the first.
C17_Witness ==
    /\ pc = "done2" /\ op = "get_printer_jobs"
    /\ Len(result) = 2
    /\ result[1].id = 2 /\ result[2].id = 3

\* The exact value of a - b - c.
Exact3(a, b, c) == WideSub(WideSub(Wide(a), Wide(b)), Wide(c))

\* Neither a - b nor (a - b) - c leaves the i32 range.
NoOverflow3(a, b, c) ==
    /\ FitsI32(WideSub(Wide(a), Wide(b)))
    /\ FitsI32(Exact3(a, b, c))

CapsFinished == op = "get_device_caps" /\ pc \in {"done", "panicked"}

\* C18 as stated: for every tuple of reported i32 values get_device_caps
\* returns margin_right and margin_bottom equal to the exact differences.
C18_MarginsExactForAllInputs ==
    CapsFinished =>
        /\ pc = "done"
        /\ Wide(result.margin_right) =
              Exact3(Queried("PHYSICALWIDTH"), Queried("HORZRES"),
                     Queried("PHYSICALOFFSETX"))
        /\ Wide(result.margin_bottom) =
              Exact3(Queried("PHYSICALHEIGHT"), Queried("VERTRES"),
                     Queried("PHYSICALOFFSETY"))

\* C18 amended: when no subtraction leaves the i32 range the call returns
\* both margins equal to the exact differences, negative ones as they are;
\* when one does, the call panics if overflow checks are on and otherwise
\* returns margins congruent to the exact differences modulo 2^32.
C18_MarginsExactUnlessOverflow ==
    CapsFinished =>
        LET pw == Queried("PHYSICALWIDTH")
            ph == Queried("PHYSICALHEIGHT")
            tw == Queried("HORZRES")
            th == Queried("VERTRES")
            ml == Queried("PHYSICALOFFSETX")
            mt == Queried("PHYSICALOFFSETY")
            fits == NoOverflow3(pw, tw, ml) /\ NoOverflow3(ph, th, mt)
        IN /\ fits =>
                /\ pc = "done"
                /\ result.margin_right = pw - tw - ml
                /\ result.margin_bottom = ph - th - mt
           /\ (~fits /\ args.overflow_checks) => pc = "panicked"
           /\ (~fits /\ ~args.overflow_checks) =>
                /\ pc = "done"
                /\ result.margin_right = WrapI32(Exact3(pw, tw, ml))
                /\ result.margin_bottom = WrapI32(Exact3(ph, th, mt))

\* C18 witness: a printable width larger than the page gives a negative
\* right margin, returned as it is.
C18_Witness ==
    /\ op = "get_device_caps" /\ pc = "done"
    /\ Queried("PHYSICALWIDTH") = 0
    /\ Queried("HORZRES") = 7
    /\ Queried("PHYSICALOFFSETX") = 0
    /\ result.margin_right = -7

\* C19: a get_device_caps call that returns made exactly one CreateDCW call,
\* then the eight GetDeviceCaps queries (also when CreateDCW failed), then
\* one DeleteDC as its last call, and no print-session or document call; it
\* returns a DeviceCaps value holding the eight query results, never an
\* error.
C19_OneCapabilitySession ==
    (op = "get_device_caps" /\ pc = "done") =>
        /\ Calls = << <<"CreateDCW", "hdc">> >>
                   \o [k \in 1..8 |-> <<"GetDeviceCaps", CapIndexes[k]>>]
                   \o << <<"DeleteDC", "hdc">> >>
        /\ result.kind = "Caps"
        /\ result.dpi_x = log[2].ret
        /\ result.dpi_y = log[3].ret
        /\ result.page_width = log[4].ret
        /\ result.page_height = log[5].ret
        /\ result.print_table_width = log[6].ret
        /\ result.print_table_height = log[7].ret
        /\ result.margin_left = log[8].ret
        /\ result.margin_top = log[9].ret

\* C19 witness: CreateDCW failed and a DeviceCaps value was returned.
C19_Witness ==
    /\ op = "get_device_caps" /\ pc = "done"
    /\ log[1].fn = "CreateDCW" /\ log[1].ret = 0
    /\ Count("GetDeviceCaps") = 8
    /\ result.kind = "Caps"
    /\ result.dpi_x = 600

\* The return value of the StartDocW call of the log (0 when there is none).
StartDocRet ==
    IF \E k \in DOMAIN log : log[k].fn = "StartDocW"
    THEN log[CHOOSE k \in DOMAIN log : log[k].fn = "StartDocW"].ret
    ELSE 0

\* C21: when StartDocW returns a value <= 0 in print_image, the call deletes
\* the printer DC, closes the printer handle and returns the start-document
\* error with no page begun; Ok is returned only with a positive job id that
\* StartDocW returned.
C21_StartDocFailureIsReported ==
    (Returned /\ op = "print_image") =>
        /\ (Count("StartDocW") = 1 /\ StartDocRet <= 0) =>
              /\ result = Err("Failed to start document")
              /\ Count("StartPage") = 0
              /\ CountArg("DeleteDC", "hdc") = 1
              /\ Count("ClosePrinter") = 1
        /\ result.kind = "Ok" =>
              /\ StartDocRet > 0
              /\ result.val = [base |-> 0, off |-> StartDocRet]

\* Some StartPage call of the log failed.
SomePageBeginFailed ==
    \E k \in DOMAIN log : log[k].fn = "StartPage" /\ log[k].ret <= 0

\* Every logged call other than StartPage succeeded.
AllButStartPageOk ==
    \A k \in DOMAIN log :
        IF log[k].fn = "StartPage" THEN TRUE
        ELSE IF log[k].fn = "DocumentPropertiesW"
                /\ log[k].arg = "DM_OUT_BUFFER"
        THEN log[k].ret = IDOK
        ELSE log[k].ret > 0

\* The calls of the log from position k on.
CallsFrom(k) == SubSeq(Calls, k, Len(Calls))

\* C24: when StartPage fails for a page of print_image while every other
\* call succeeds, each of the page_count pages still runs its whole cycle
\* (memory DC and bitmap created, drawn, released, EndPage), the document is
\* ended and the call returns Ok with the job id.
C24_PageBeginFailureIgnored ==
    (Returned /\ op = "print_image" /\ SomePageBeginFailed
              /\ AllButStartPageOk) =>
        /\ \E k \in DOMAIN log :
              /\ log[k].fn = "StartDocW"
              /\ CallsFrom(k + 1) =
                    Repeat(PageCycle, args.page_count)
                    \o << <<"EndDoc", "hdc">>, <<"DeleteDC", "hdc">>,
                          <<"ClosePrinter", "printer_handle">> >>
        /\ result = Ok([base |-> 0, off |-> StartDocRet])

\* C24 witness: the first StartPage of a 2-page job failed, both pages were
\* ended and Ok was returned.
C24_Witness ==
    /\ Returned /\ op = "print_image" /\ AllButStartPageOk
    /\ args.page_count = 2
    /\ \E k \in DOMAIN log :
          /\ log[k].fn = "StartPage" /\ log[k].ret = 0
          /\ \A m \in 1..(k - 1) : log[m].fn # "StartPage"
    /\ Count("EndPage") = 2
    /\ CountOk("StretchBlt") = 2
    /\ result.kind = "Ok"

\* The option values that are integer literals, with the integer each denotes.
IntegerOf(v) ==
    CASE v = <<"2">> -> 2
      [] v = <<"0">> -> 0
      [] v = <<"-", "1">> -> -1
      [] v = <<"+", "3">> -> 3
IntegerLiterals == { <<"2">>, <<"0">>, <<"-", "1">>, <<"+", "3">> }

\* The largest element of a non-empty set of integers.
Last(S) == CHOOSE k \in S : \A m \in S : m <= k

\* The printer was opened and the option scan of the running print_buffer
\* call is over.
Scanned ==
    /\ op = "print_buffer" /\ Opened
    /\ pc \notin {"idle", "pb_open", "pb_scan"}

\* C25: after the option scan of print_buffer the copy count is the value of
\* the last 'copies' option whose value is an integer literal (1 when there
\* is none), so a later unparsable 'copies' value leaves it alone; the data
\* type is the value of the last 'document-format' option (RAW when there
\* is none); other keys change nothing.
C25_LastOptionWins ==
    Scanned =>
        LET cs == {k \in DOMAIN args.options :
                      /\ args.options[k][1] = "copies"
                      /\ args.options[k][2] \in IntegerLiterals}
            ds == {k \in DOMAIN args.options :
                      args.options[k][1] = "document-format"}
        IN /\ copies = IF cs = {} THEN 1
                       ELSE IntegerOf(args.options[Last(cs)][2])
           /\ data_type = IF ds = {} THEN RAW
                          ELSE args.options[Last(ds)][2]

\* C25 witness: copies=2 followed by an unparsable copies=x leaves the
\* count at 2.
C25_Witness ==
    /\ Scanned /\ pc = "done"
    /\ args.options = << <<"copies", <<"2">> >>, <<"copies", <<"x">> >> >>
    /\ copies = 2
    /\ data_type = RAW

\* The size query of the log reported a non-zero size.
SizeReported ==
    \E k \in DOMAIN log :
        log[k].fn = "EnumJobsW" /\ log[k].arg = "size" /\ log[k].n > 0

\* C22: a returned enum_printer_jobs call that opened the printer closed it
\* exactly once; when its size query reported a non-zero size it made the
\* fill call and, when that succeeded, returned one job per queued job; and
\* it returned the empty list only when the size query reported 0 bytes.
C22_SizeThenFill ==
    (Returned /\ op = "enum_printer_jobs" /\ Opened) =>
        /\ Count("ClosePrinter") = 1
        /\ SizeReported =>
              /\ CountArg("EnumJobsW", "fill") = 1
              /\ CountOk("EnumJobsW") >= 1 =>
                    /\ result.kind = "Ok"
                    /\ Len(result.list) = Len(args.queue)
        /\ result = OkJobs(<<>>) => ~SizeReported

\* The StretchBlt calls of the log.
Blts == {k \in DOMAIN log : log[k].fn = "StretchBlt"}

\* x is d / 2 with the quotient truncated toward zero.
IsHalfTowardZero(x, d) ==
    IF d >= 0
    THEN x >= 0 /\ 2 * x <= d /\ d < 2 * x + 2
    ELSE x <= 0 /\ 2 * x >= d /\ d > 2 * x - 2

\* C23: every StretchBlt call of print_image draws at
\* x = (device width - image width) / 2 truncated toward zero, y = 0, with
\* the destination size equal to the image's pixel size, and every page of a
\* call uses the same placement.
C23_CenteredTopAligned ==
    op = "print_image" =>
        /\ \A k \in Blts :
              /\ IsHalfTowardZero(log[k].p.x, width - args.img_width)
              /\ log[k].p.y = 0
              /\ log[k].p.w = args.img_width
              /\ log[k].p.h = args.img_height
              /\ log[k].p.src_w = args.img_width
              /\ log[k].p.src_h = args.img_height
        /\ \A k \in Blts : \A m \in Blts : log[k].p = log[m].p

\* C23 witness: a 5000-pixel-wide image on a 4961-pixel-wide page is drawn
\* on both pages at x = -19.
C23_Witness ==
    /\ Returned /\ op = "print_image"
    /\ width = 4961 /\ args.img_width = 5000
    /\ Cardinality(Blts) = 2
    /\ \A k \in Blts : log[k].p.x = -19 /\ log[k].p.w = 5000

====
